---- MODULE Spec2Model ----
(***************************************************************************)
(* anvilregion-repacker: the region <-> bin transcoder.                    *)
(*                                                                         *)
(* decompact (bin -> region):  main.rs decompact_file / decompact_ws       *)
(* compact   (region -> bin):  main.rs compact_file / compact,             *)
(*                             region/mod.rs RegionInfo / RegionReader,    *)
(*                             chunk/mod.rs ChunkData                      *)
(*                                                                         *)
(* Representation.                                                         *)
(*  - A file offset (u64 in the source) is a record [s, b]: sector index   *)
(*    and byte within the sector, s * 4096 + b.  TLC's integers are 32 bit *)
(*    and a region addresses 2^24 sectors of 4096 bytes.                   *)
(*  - A byte string is a sequence of pieces [t, n, v, off, w]: n bytes of  *)
(*    kind t.  "u32"/"u8" are big-endian integer fields of value v, "zero" *)
(*    is n zero bytes, "z" is the bytes off .. off+n of the zlib stream of *)
(*    payload v, whose whole length is w.                                  *)
(*  - flate2 is a library: its encoder is an injective map from a payload  *)
(*    to a stream of the payload's compressed length, its decoder inverts  *)
(*    a whole stream and fails on anything else.                           *)
(***************************************************************************)
EXTENDS Integers, Sequences, FiniteSets, Bags, TLC

VARIABLES
  debug,       \* cfg!(debug_assertions) of the build
  pc,          \* where the program is
  err,         \* the error the finished run returned ("" when none)
  S,           \* the bin stream given to decompact
  input,       \* decompact's reader: what of S is still unread
  rfile,       \* the region file: decompact's output, compact's input
  wpos,        \* decompact's writer: the cursor
  chunkinfos,  \* decompact_ws: the table, slot -> ChunkInfo (absent = None)
  location,    \* decompact_ws: offset of the next body
  nread,       \* number of records decompact_ws has consumed
  rr,          \* compact: the RegionReader
  chunkbuf,    \* compact: the reused chunk buffer
  binout,      \* compact's output
  ci           \* a call of ChunkInfo::new: its arguments and results

vars == <<debug, pc, err, S, input, rfile, wpos, chunkinfos, location, nread,
          rr, chunkbuf, binout, ci>>

(***************************************************************************)
(* Program constants                                                       *)
(***************************************************************************)
SECTOR_SIZE == 4096

RegionInfo_SIZE == 8192

MAX_CHUNK_COUNT == 1024

MAX_SECTOR_COUNT == 255

BIN_HEADER_SIZE == 16

\* the frame prefix: 4 bytes of length and 1 byte of compression type
FRAME_PREFIX == 5

ZLIB_TYPE == 2

Min(a, b) == IF a <= b THEN a ELSE b

Max(a, b) == IF a >= b THEN a ELSE b

(***************************************************************************)
(* File offsets                                                            *)
(***************************************************************************)
Off(s, b) == [s |-> s, b |-> b]

OffAdd(o, n) ==
  [s |-> o.s + ((o.b + n) \div SECTOR_SIZE), b |-> (o.b + n) % SECTOR_SIZE]

OffLE(a, b) == a.s < b.s \/ (a.s = b.s /\ a.b <= b.b)

OffMax(a, b) == IF OffLE(a, b) THEN b ELSE a

\* a - b in bytes, for a >= b
OffDiff(a, b) == (a.s - b.s) * SECTOR_SIZE + (a.b - b.b)

HeaderEnd == Off(RegionInfo_SIZE \div SECTOR_SIZE, 0)

(***************************************************************************)
(* Byte strings                                                            *)
(***************************************************************************)
U32(v) == [t |-> "u32", n |-> 4, v |-> v, off |-> 0, w |-> 4]

U8(v) == [t |-> "u8", n |-> 1, v |-> v, off |-> 0, w |-> 1]

Zeros(k) == IF k = 0 THEN <<>> ELSE <<[t |-> "zero", n |-> k, v |-> 0, off |-> 0, w |-> k]>>

RECURSIVE BLen(_)
BLen(b) == IF b = <<>> THEN 0 ELSE Head(b).n + BLen(Tail(b))

\* the k bytes of piece p that start a bytes into it
Cut(p, a, k) ==
  IF a = 0 /\ k = p.n THEN p
  ELSE IF p.t = "zero" THEN [p EXCEPT !.n = k, !.w = k]
  ELSE IF p.t \in {"z", "gz", "raw"} THEN [p EXCEPT !.n = k, !.off = p.off + a]
  ELSE [t |-> "frag", n |-> k, v |-> p.v, off |-> p.off + a, w |-> p.w]

RECURSIVE BTake(_, _)
BTake(b, k) ==
  IF k = 0 \/ b = <<>> THEN <<>>
  ELSE IF Head(b).n <= k THEN <<Head(b)>> \o BTake(Tail(b), k - Head(b).n)
  ELSE <<Cut(Head(b), 0, k)>>

RECURSIVE BDrop(_, _)
BDrop(b, k) ==
  IF k = 0 \/ b = <<>> THEN b
  ELSE IF Head(b).n <= k THEN BDrop(Tail(b), k - Head(b).n)
  ELSE <<Cut(Head(b), k, Head(b).n - k)>> \o Tail(b)

\* the big-endian u32 at the start of b
U32At0(b) ==
  IF b = <<>> THEN -1
  ELSE IF Head(b).t = "u32" THEN Head(b).v
  ELSE IF Head(b).t = "zero" /\ Head(b).n >= 4 THEN 0
  ELSE -1

\* the byte at the start of b
U8At0(b) ==
  IF b = <<>> THEN -1
  ELSE IF Head(b).t = "u8" THEN Head(b).v
  ELSE IF Head(b).t = "zero" THEN 0
  ELSE -1

(***************************************************************************)
(* region/mod.rs: ChunkInfo                                                *)
(***************************************************************************)
ZeroLocdata == <<0, 0, 0, 0>>

\* ChunkInfo::new with the three bytes of the sector index in the order of
\* a little-endian u32
ChunkInfo_new_LittleEndian(loc, size, timestamp) ==
  IF loc.b # 0 \/ size % SECTOR_SIZE # 0 \/ size \div SECTOR_SIZE > MAX_SECTOR_COUNT
  THEN [panic |-> TRUE, locdata |-> ZeroLocdata, timestamp |-> 0]
  ELSE [panic |-> FALSE,
        locdata |-> << loc.s % 256, (loc.s \div 256) % 256, (loc.s \div 65536) % 256,
                       (size \div SECTOR_SIZE) % 256 >>,
        timestamp |-> timestamp]

\* ChunkInfo::new: location is a NonZeroU64 offset, size a NonZeroU64.  The
\* result is the ChunkInfo, or a panic (an assert!, or the unwrap of the
\* NonZeroU32 transmute).  (location / 4096) as u32 is cut to its low three
\* bytes: location_bytes[1..=3] of the big-endian u32.
ChunkInfo_new(loc, size, timestamp) ==
  IF loc.b # 0 \/ size % SECTOR_SIZE # 0 \/ size \div SECTOR_SIZE > MAX_SECTOR_COUNT
  THEN [panic |-> TRUE, locdata |-> ZeroLocdata, timestamp |-> 0]
  ELSE LET locdata == << (loc.s \div 65536) % 256,
                         (loc.s \div 256) % 256,
                         loc.s % 256,
                         (size \div SECTOR_SIZE) % 256 >>
       IN  IF locdata = ZeroLocdata
           THEN [panic |-> TRUE, locdata |-> ZeroLocdata, timestamp |-> 0]
           ELSE [panic |-> FALSE, locdata |-> locdata, timestamp |-> timestamp]

\* ChunkInfo::location, as an offset
ChunkInfo_location(c) ==
  Off((c.locdata[1] * 256 + c.locdata[2]) * 256 + c.locdata[3], 0)

\* ChunkInfo::size, in bytes
ChunkInfo_size(c) == c.locdata[4] * SECTOR_SIZE

(***************************************************************************)
(* flate2                                                                  *)
(***************************************************************************)
\* a payload: id names its bytes, len is their number, z the length of
\* their zlib stream at level 3; raw holds the bytes of a payload that
\* was copied out of a region uncompressed
Payload(id, len, z) == [id |-> id, len |-> len, z |-> z, raw |-> <<>>]

\* flate2::read::ZlibEncoder at level 3
ZlibEncoder(p) ==
  <<[t |-> "z", n |-> p.z, v |-> p.id, off |-> 0, w |-> p.z]>>

\* the payloads of this model, with the sector count of each one's frame
PA == Payload(1, 1, 9)                  \* "A": one sector

PFill == Payload(2, 5000, 4091)         \* frame of 4096 bytes: one sector, no padding

PTwo == Payload(3, 6000, 4092)          \* frame of 4097 bytes: two sectors

PMax == Payload(4, 1048576, 1044475)    \* frame of 255 sectors, no padding

PHuge == Payload(5, 1100000, 1044476)   \* frame of 255 sectors and a byte

PHello == Payload(6, 5, 13)             \* "hello"

AllPayloads == {PA, PFill, PTwo, PMax, PHuge, PHello}

\* flate2::read::{ZlibDecoder, GzDecoder} on the bytes d: the payload of the
\* whole stream d starts with; bytes after the stream's end are not read
Decoder(kind, d) ==
  IF d # <<>> /\ Head(d).t = kind /\ Head(d).off = 0 /\ Head(d).n = Head(d).w
     /\ \E p \in AllPayloads : p.id = Head(d).v
  THEN [ok |-> TRUE, payload |-> CHOOSE p \in AllPayloads : p.id = Head(d).v]
  ELSE [ok |-> FALSE, payload |-> Payload(0, 0, 0)]

(***************************************************************************)
(* Files                                                                   *)
(***************************************************************************)
\* A region file: len is its length, hdr the header table (slot ->
\* [locdata, timestamp]; a slot that is not in hdr is all zero), body the
\* bodies written after the header: each run is `times` bodies `stride`
\* sectors apart, the first at sector `start`, each holding `bytes` and
\* then zeros (a hole left by a seek).
NoFile == [exists |-> FALSE, len |-> Off(0, 0), hdr |-> <<>>, body |-> <<>>]

EmptyFile == [exists |-> TRUE, len |-> Off(0, 0), hdr |-> <<>>, body |-> <<>>]

RunEnd(r) == r.start + r.times * r.stride

\* write_all(bytes) at sector sec, the cursor then moved to sec + stride
WriteBody(f, sec, bytes, stride) ==
  LET k == Len(f.body)
      grow == k > 0 /\ f.body[k].bytes = bytes /\ f.body[k].stride = stride
              /\ RunEnd(f.body[k]) = sec
  IN  [f EXCEPT
        !.len = OffMax(f.len, OffAdd(Off(sec, 0), BLen(bytes))),
        !.body = IF grow THEN [f.body EXCEPT ![k].times = @ + 1]
                 ELSE Append(f.body, [start |-> sec, stride |-> stride,
                                      times |-> 1, bytes |-> bytes])]

\* the n bytes at sector sec of a file that is long enough
RECURSIVE Image(_, _, _)
Image(f, sec, n) ==
  IF n <= 0 THEN <<>>
  ELSE LET over == {i \in 1..Len(f.body) :
                      f.body[i].start <= sec /\ sec < RunEnd(f.body[i])}
           after == {f.body[i].start : i \in {j \in 1..Len(f.body) : f.body[j].start > sec}}
       IN  IF over = {}
           THEN LET gap == IF after = {} THEN (n + SECTOR_SIZE - 1) \div SECTOR_SIZE
                           ELSE (CHOOSE a \in after : \A x \in after : a <= x) - sec
                    m == Min(n, gap * SECTOR_SIZE)
                IN  Zeros(m) \o Image(f, sec + gap, n - m)
           ELSE LET r == f.body[CHOOSE i \in over : TRUE]
                    in == (sec - r.start) % r.stride
                    rest == BDrop(r.bytes \o Zeros(r.stride * SECTOR_SIZE - BLen(r.bytes)),
                                  in * SECTOR_SIZE)
                    part == BTake(rest, n)
                IN  part \o Image(f, sec + (r.stride - in), n - BLen(part))

\* how many of the n bytes at sector sec the file holds
Available(f, sec, n) ==
  IF OffLE(OffAdd(Off(sec, 0), n), f.len) THEN n
  ELSE IF OffLE(f.len, Off(sec, 0)) THEN 0
  ELSE OffDiff(f.len, Off(sec, 0))

\* what reader.take(n) yields at sector sec
ReadBody(f, sec, n) == BTake(Image(f, sec, n), Available(f, sec, n))

(***************************************************************************)
(* region/mod.rs: RegionInfo                                               *)
(***************************************************************************)
\* the order of the slots, were the table left unsorted
Before_BySlot(a, b) == a.pos < b.pos

\* the order of sort_by_key(location) on entries collected in slot order:
\* the sort is stable
Before(a, b) ==
  LET la == ChunkInfo_location(a.info).s
      lb == ChunkInfo_location(b.info).s
  IN  la < lb \/ (la = lb /\ a.pos < b.pos)

RECURSIVE SortChunks(_)
SortChunks(es) ==
  IF es = {} THEN <<>>
  ELSE LET first == CHOOSE a \in es : \A b \in es \ {a} : Before(a, b)
       IN  <<first>> \o SortChunks(es \ {first})

\* RegionInfo::read: read_exact of 8192 bytes, then every slot whose locdata
\* is a NonZeroU32, with its slot index, sorted by location
RegionInfo_read(f) ==
  IF ~OffLE(HeaderEnd, f.len)
  THEN [ok |-> FALSE, chunks |-> <<>>]
  ELSE [ok |-> TRUE,
        chunks |-> SortChunks({[info |-> f.hdr[p], pos |-> p] :
                      p \in {q \in DOMAIN f.hdr : f.hdr[q].locdata # ZeroLocdata}})]

\* decompact_ws at end of input: seek to 0, then the 1024 locdata and the
\* 1024 timestamps, zero for None
WriteHeader(f, table) ==
  [f EXCEPT !.hdr = [p \in DOMAIN table |->
                       [locdata |-> table[p].locdata, timestamp |-> table[p].timestamp]],
            !.len = OffMax(f.len, HeaderEnd)]

(***************************************************************************)
(* Inputs                                                                  *)
(***************************************************************************)
\* the longest bin stream, in records
MaxRecords == 2

Positions == {0, 1023, 1024}

Timestamps == {1, 256}

Payloads == {PA, PFill, PTwo, PHuge}

Records == [pos : Positions, timestamp : Timestamps, payload : Payloads]

\* A bin stream: whole records, each block `times` copies of one record,
\* and then the end of the input: "eof" at a record boundary, "hdr" after
\* n < 16 bytes of a header, "short" after a whole header that declares
\* len payload bytes and only n < len of them
Tails == {[k |-> "eof", n |-> 0, len |-> 0],
          [k |-> "hdr", n |-> 1, len |-> 0],
          [k |-> "hdr", n |-> BIN_HEADER_SIZE - 1, len |-> 0],
          [k |-> "short", n |-> 3, len |-> 4]}

Streams ==
  [recs : UNION {[1..k -> [rec : Records, times : {1}]] : k \in 0..MaxRecords},
   tail : Tails]

NoStream == [recs |-> <<>>, tail |-> [k |-> "none", n |-> 0, len |-> 0]]

\* a header slot: sector index in three bytes, sector count in one
Slot(sec, cnt, ts) ==
  [locdata |-> <<(sec \div 65536) % 256, (sec \div 256) % 256, sec % 256, cnt>>,
   timestamp |-> ts]

\* a chunk body: the length field, the compression type, the data
Frame(length, ctype, data) == <<U32(length), U8(ctype)>> \o data

\* n bytes that are no stream of any decoder
RawBytes(id, n) == <<[t |-> "raw", n |-> n, v |-> id, off |-> 0, w |-> n]>>

Body(sec, stride, bytes) ==
  [start |-> sec, stride |-> stride, times |-> 1, bytes |-> bytes]

Region(len, hdr, body) ==
  [exists |-> TRUE, len |-> len, hdr |-> hdr, body |-> body]

\* region files given to compact: a file shorter than its header; an empty
\* region; one chunk of two sectors at sector 16 (region/mod.rs:201-202);
\* slots in an order that is not the order of their bodies, with a zero
\* locdata that carries a timestamp; a header that points beyond the end of
\* the file; a compression type no decoder knows; a gzip frame that holds
\* no gzip stream; two slots on one body; a chunk of two sectors followed by
\* an uncompressed chunk of one sector whose length field is 4093, one more
\* than its sector holds after the field; that chunk alone
CraftedRegions ==
  { Region(Off(1, 100), <<>>, <<>>),
    Region(HeaderEnd, <<>>, <<>>),
    Region(Off(18, 0), 0 :> Slot(16, 2, 256),
           <<Body(16, 2, Frame(PHello.z + 1, ZLIB_TYPE, ZlibEncoder(PHello)))>>),
    Region(Off(4, 0),
           0 :> Slot(3, 1, 7) @@ 1 :> [locdata |-> ZeroLocdata, timestamp |-> 9]
             @@ 1023 :> Slot(2, 1, 8),
           <<Body(2, 1, Frame(PA.z + 1, ZLIB_TYPE, ZlibEncoder(PA))),
             Body(3, 1, Frame(PHello.z + 1, ZLIB_TYPE, ZlibEncoder(PHello)))>>),
    Region(Off(2, 100), 0 :> Slot(16, 2, 256), <<>>),
    Region(Off(3, 0), 0 :> Slot(2, 1, 1),
           <<Body(2, 1, Frame(PA.z + 1, 7, ZlibEncoder(PA)))>>),
    Region(Off(3, 0), 0 :> Slot(2, 1, 1),
           <<Body(2, 1, Frame(PA.z + 1, 1, ZlibEncoder(PA)))>>),
    Region(Off(3, 0), 0 :> Slot(2, 1, 1) @@ 1 :> Slot(2, 1, 2),
           <<Body(2, 1, Frame(PA.z + 1, ZLIB_TYPE, ZlibEncoder(PA)))>>),
    Region(Off(5, 0), 0 :> Slot(2, 2, 1) @@ 1 :> Slot(4, 1, 2),
           <<Body(2, 2, Frame(PTwo.z + 1, ZLIB_TYPE, ZlibEncoder(PTwo))),
             Body(4, 1, Frame(SECTOR_SIZE - 3, 3, RawBytes(7, 100)))>>),
    Region(Off(3, 0), 0 :> Slot(2, 1, 2),
           <<Body(2, 1, Frame(SECTOR_SIZE - 3, 3, RawBytes(7, 100)))>>) }

NoReader == [info |-> <<>>, pos |-> Off(0, 0), next_chunk |-> 0, tainted |-> FALSE]

NoOut == [given |-> FALSE, exists |-> FALSE, recs |-> <<>>]

NoCall == [phase |-> "none", loc |-> Off(0, 0), size |-> 0, timestamp |-> 0,
           slot |-> 0, out |-> Slot(0, 0, 0), panic |-> FALSE, parsed |-> <<>>]

InitWith(streams) ==
  /\ debug \in BOOLEAN
  /\ pc = "idle"
  /\ err = ""
  /\ \/ S \in streams /\ rfile = NoFile
     \/ S = NoStream /\ rfile \in CraftedRegions
  /\ input = S
  /\ wpos = Off(0, 0)
  /\ chunkinfos = <<>>
  /\ location = Off(0, 0)
  /\ nread = 0
  /\ rr = NoReader
  /\ chunkbuf = <<>>
  /\ binout = NoOut
  /\ ci = NoCall

Init == InitWith(Streams)

(***************************************************************************)
(* main.rs: decompact_file, decompact_ws                                   *)
(***************************************************************************)
\* decompact_file's error path: remove_file(output)
RemoveOutput(f) == NoFile

\* decompact_file: create the output; decompact_ws: seek to 8192
DecompactStart ==
  /\ pc = "idle"
  /\ S # NoStream
  /\ pc' = "decompact"
  /\ rfile' = EmptyFile
  /\ wpos' = Off(RegionInfo_SIZE \div SECTOR_SIZE, 0)
  /\ location' = Off(RegionInfo_SIZE \div SECTOR_SIZE, 0)
  /\ chunkinfos' = <<>>
  /\ UNCHANGED <<debug, err, S, input, nread, rr, chunkbuf, binout, ci>>

\* the reader after one whole record
NextInput(in) ==
  IF Head(in.recs).times > 1
  THEN [in EXCEPT !.recs[1].times = @ - 1]
  ELSE [in EXCEPT !.recs = Tail(@)]

\* a length field that leaves out the compression type byte
LengthField_DataOnly(data_size) == data_size - FRAME_PREFIX

\* the length field written before the body: (data_size - 4) as u32
LengthField(data_size) == data_size - 4

\* the pad after a body of data_size bytes
PadAfter(data_size) ==
  (SECTOR_SIZE - (data_size % SECTOR_SIZE)) % SECTOR_SIZE

\* the table after `core::mem::replace(&mut chunkinfos[pos], Some(c))`
StoreChunkInfo(table, pos, c) ==
  [q \in DOMAIN table \cup {pos} |-> IF q = pos THEN c ELSE table[q]]

\* one turn of decompact_ws's loop on a whole record: compress, write the
\* frame, seek over the pad, store the ChunkInfo.  A panic (ChunkInfo::new,
\* the index, the debug_assert!) unwinds past decompact_file's error path:
\* the output stays, with what was written.
DecompactRecord ==
  /\ pc = "decompact"
  /\ input.recs # <<>>
  /\ LET r == Head(input.recs).rec
         buffer2 == ZlibEncoder(r.payload)
         data_size == BLen(buffer2) + FRAME_PREFIX
         left == PadAfter(data_size)
         size == data_size + left
         frame == Frame(LengthField(data_size), ZLIB_TYPE, buffer2)
         c == ChunkInfo_new(location, size, r.timestamp)
         stored == ~c.panic /\ r.pos < MAX_CHUNK_COUNT
         old == r.pos \in DOMAIN chunkinfos
         panics == ~stored \/ (debug /\ old)
     IN  /\ rfile' = WriteBody(rfile, wpos.s, frame, (size + SECTOR_SIZE - 1) \div SECTOR_SIZE)
         /\ wpos' = OffAdd(wpos, size)
         /\ chunkinfos' = IF stored
                          THEN StoreChunkInfo(chunkinfos, r.pos,
                                 [locdata |-> c.locdata, timestamp |-> c.timestamp])
                          ELSE chunkinfos
         /\ location' = IF panics THEN location ELSE OffAdd(location, size)
         /\ pc' = IF panics THEN "d_panic" ELSE "decompact"
  /\ input' = NextInput(input)
  /\ nread' = nread + 1
  /\ UNCHANGED <<debug, err, S, rr, chunkbuf, binout, ci>>

\* read_exact of the header fails with UnexpectedEof, after 0 or after
\* n < 16 bytes: seek to 0, write the table, Ok(location); decompact_file
\* flushes
DecompactEof ==
  /\ pc = "decompact"
  /\ input.recs = <<>>
  /\ input.tail.k \in {"eof", "hdr"}
  /\ rfile' = WriteHeader(rfile, chunkinfos)
  /\ wpos' = Off(RegionInfo_SIZE \div SECTOR_SIZE, 0)
  /\ pc' = "d_ok"
  /\ UNCHANGED <<debug, err, S, input, chunkinfos, location, nread, rr,
                 chunkbuf, binout, ci>>

\* a whole header, then fewer payload bytes than header.length: the
\* ensure! fails with UnexpectedEof and decompact_file removes the output
DecompactShort ==
  /\ pc = "decompact"
  /\ input.recs = <<>>
  /\ input.tail.k = "short"
  /\ input.tail.n # input.tail.len
  /\ rfile' = RemoveOutput(rfile)
  /\ pc' = "d_err"
  /\ err' = "UnexpectedEof"
  /\ UNCHANGED <<debug, S, input, wpos, chunkinfos, location, nread, rr,
                 chunkbuf, binout, ci>>

(***************************************************************************)
(* main.rs: compact_file, compact; region/mod.rs: RegionReader;            *)
(* chunk/mod.rs: ChunkData                                                 *)
(***************************************************************************)
\* an error path that leaves the output where it is
FailedOutput_Keep(out) == out

\* compact_file's error path: flush, drop the writer and, when an output
\* path was given, remove_file(output)
FailedOutput(out) ==
  IF out.given THEN [out EXCEPT !.exists = FALSE, !.recs = <<>>] ELSE out

\* compact_file opens the output, compact opens the RegionReader:
\* RegionReader::from_reader reads the header
CompactStart(given) ==
  /\ pc \in {"idle", "d_ok"}
  /\ rfile.exists
  /\ LET info == RegionInfo_read(rfile)
         out == [given |-> given, exists |-> TRUE, recs |-> <<>>]
     IN  IF info.ok
         THEN /\ rr' = [info |-> info.chunks, pos |-> Off(RegionInfo_SIZE \div SECTOR_SIZE, 0),
                        next_chunk |-> 0, tainted |-> FALSE]
              /\ binout' = out
              /\ pc' = "compact"
              /\ err' = err
         ELSE /\ rr' = rr
              /\ binout' = FailedOutput(out)
              /\ pc' = "c_err"
              /\ err' = "UnexpectedEof"
  /\ chunkbuf' = <<>>
  /\ UNCHANGED <<debug, S, input, rfile, wpos, chunkinfos, location, nread, ci>>

\* chunkbuf before the read: zeroed in a debug build, then grown with zeros
\* to info.size().div_ceil(4) words
GrownBuf(buf, size) ==
  (IF debug THEN Zeros(BLen(buf)) ELSE buf)
    \o Zeros(Max(0, 4 * ((size + 3) \div 4) - BLen(buf)))

\* RegionReader::read_next_chunk on the chunk info, into the slice buf:
\* what is left of the call: "panic", an error, or the reader and the
\* buffer after the copy
read_next_chunk(reader, info, buf) ==
  LET loc == ChunkInfo_location(info)
      size == ChunkInfo_size(info)
      copied == Available(rfile, loc.s, size)
  IN  IF reader.tainted \/ ~OffLE(reader.pos, loc)
      THEN [res |-> "panic", reader |-> reader, buf |-> buf, copied |-> 0]
      ELSE IF loc # reader.pos /\ ~OffLE(loc, rfile.len)
      THEN [res |-> "UnexpectedEof", reader |-> [reader EXCEPT !.tainted = TRUE],
            buf |-> buf, copied |-> 0]
      ELSE [res |-> "ok",
            reader |-> [reader EXCEPT !.pos = OffAdd(loc, copied),
                                      !.next_chunk = @ + 1],
            buf |-> ReadBody(rfile, loc.s, size) \o BDrop(buf, copied),
            copied |-> copied]

\* ChunkData::ref_from_bytes and ChunkData::decompress on the whole buffer
ChunkData_decompress(buf) ==
  LET length == U32At0(buf)
      ctype == U8At0(BDrop(buf, 4))
      data == BDrop(buf, FRAME_PREFIX)
      taken == BTake(data, length - 1)
      dec == Decoder(IF ctype = 1 THEN "gz" ELSE "z", taken)
  IN  IF BLen(buf) < 8 \/ ctype \notin {1, 2, 3}
      THEN [res |-> "InvalidChunkData", payload |-> Payload(0, 0, 0)]
      ELSE IF length = 0 /\ debug
      THEN [res |-> "panic", payload |-> Payload(0, 0, 0)]
      ELSE IF length = 0 \/ length - 1 > BLen(data)
      THEN [res |-> "UnexpectedEof", payload |-> Payload(0, 0, 0)]
      ELSE IF ctype = 3
      THEN [res |-> "ok",
            payload |-> [id |-> 0, len |-> length - 1, z |-> 0, raw |-> taken]]
      ELSE IF dec.ok
      THEN [res |-> "ok", payload |-> dec.payload]
      ELSE [res |-> "DecompressError", payload |-> Payload(0, 0, 0)]

\* the BinHeader and the payload written for a chunk
BinRecord(pos, info, payload) ==
  [pos |-> pos, timestamp |-> info.timestamp, length |-> payload.len,
   payload |-> payload]

\* one turn of compact's loop: the next chunk is read into chunkbuf,
\* decompressed and written; wrote is whether the writer took the record
CompactChunk(wrote) ==
  /\ pc = "compact"
  /\ rr.next_chunk < Len(rr.info)
  /\ LET e == rr.info[rr.next_chunk + 1]
         rd == read_next_chunk(rr, e.info, GrownBuf(chunkbuf, ChunkInfo_size(e.info)))
         dc == ChunkData_decompress(rd.buf)
         res == IF rd.res # "ok" THEN rd.res
                ELSE IF dc.res # "ok" THEN dc.res
                ELSE IF ~wrote THEN "IoError"
                ELSE "ok"
     IN  /\ rr' = rd.reader
         /\ chunkbuf' = rd.buf
         /\ binout' = IF res = "ok"
                      THEN [binout EXCEPT !.recs = Append(@, BinRecord(e.pos, e.info, dc.payload))]
                      ELSE IF res = "panic" THEN binout
                      ELSE FailedOutput(binout)
         /\ pc' = IF res = "ok" THEN "compact"
                  ELSE IF res = "panic" THEN "c_panic" ELSE "c_err"
         /\ err' = IF res \in {"ok", "panic"} THEN err ELSE res
  /\ UNCHANGED <<debug, S, input, rfile, wpos, chunkinfos, location, nread, ci>>

\* next_chunk_info() is None: Ok(total_written), and compact_file flushes
CompactDone ==
  /\ pc = "compact"
  /\ rr.next_chunk >= Len(rr.info)
  /\ pc' = "c_ok"
  /\ UNCHANGED <<debug, err, S, input, rfile, wpos, chunkinfos, location, nread,
                 rr, chunkbuf, binout, ci>>

Next ==
  \/ DecompactStart
  \/ DecompactRecord
  \/ DecompactEof
  \/ DecompactShort
  \/ \E given \in BOOLEAN : CompactStart(given)
  \/ \E wrote \in BOOLEAN : CompactChunk(wrote)
  \/ CompactDone

Spec == Init /\ [][Next]_vars

(***************************************************************************)
(* A long stream: one record, of 255 sectors, repeated until the sector    *)
(* index of a body no longer fits the three bytes locdata has for it       *)
(***************************************************************************)
MAX_SECTOR_INDEX == 16777215

LongStream ==
  [recs |-> <<[rec |-> [pos |-> 0, timestamp |-> 1, payload |-> PMax],
               times |-> ((MAX_SECTOR_INDEX - 2) \div MAX_SECTOR_COUNT) + 2]>>,
   tail |-> [k |-> "eof", n |-> 0, len |-> 0]]

InitLong == InitWith(Streams \cup {LongStream})

SpecLong == InitLong /\ [][Next]_vars

(***************************************************************************)
(* Properties                                                              *)
(***************************************************************************)
\* the i-th record of S, when no block of S repeats
SRec(i) == S.recs[i].rec

Unrolled == \A i \in 1..Len(S.recs) : S.recs[i].times = 1

\* the sectors the frame of a payload takes
SectorsOf(p) == (p.z + FRAME_PREFIX + SECTOR_SIZE - 1) \div SECTOR_SIZE

\* S is a stream of whole records with pairwise distinct positions < 1024
ValidStream ==
  /\ S # NoStream /\ S.tail.k = "eof" /\ Unrolled
  /\ \A i \in 1..Len(S.recs) : SRec(i).pos < MAX_CHUNK_COUNT
  /\ \A i, j \in 1..Len(S.recs) : i # j => SRec(i).pos # SRec(j).pos

\* decompact of S has produced its file
Decompacted == S # NoStream /\ pc \in {"d_ok", "compact", "c_ok", "c_err", "c_panic"}

SameRecords ==
  /\ Len(binout.recs) = Len(S.recs)
  /\ \A i \in 1..Len(S.recs) : \E j \in 1..Len(binout.recs) :
       /\ binout.recs[j].pos = SRec(i).pos
       /\ binout.recs[j].timestamp = SRec(i).timestamp
       /\ binout.recs[j].payload = SRec(i).payload
       /\ binout.recs[j].length = SRec(i).payload.len

\* C1: for a stream S of records with pairwise distinct positions < 1024,
\* compact on the file decompact produced from S does not fail (unless its
\* writer does), emits only records of S, and ends having emitted exactly
\* the records of S: the same (pos, timestamp, payload) for each, one output
\* record per input record
C1_RoundTrip ==
  (ValidStream /\ Decompacted) =>
     /\ pc # "c_panic"
     /\ pc = "c_err" => err = "IoError"
     /\ pc \in {"compact", "c_ok"} =>
          \A j \in 1..Len(binout.recs) : \E i \in 1..Len(S.recs) :
             /\ binout.recs[j].pos = SRec(i).pos
             /\ binout.recs[j].timestamp = SRec(i).timestamp
             /\ binout.recs[j].payload = SRec(i).payload
     /\ pc = "c_ok" => SameRecords

C1_Witness ==
  /\ pc = "c_ok" /\ ValidStream /\ ~debug
  /\ Len(S.recs) = 2 /\ Len(binout.recs) = 2
  /\ SRec(1).pos = 1023 /\ SRec(1).payload = PTwo /\ SRec(1).timestamp = 256
  /\ SRec(2).pos = 0 /\ SRec(2).payload = PA /\ SRec(2).timestamp = 1

\* the sectors of the first n records of a stream
RECURSIVE ConsumedSectors(_, _)
ConsumedSectors(recs, n) ==
  IF n = 0 \/ recs = <<>> THEN 0
  ELSE LET k == Min(n, Head(recs).times)
       IN  k * SectorsOf(Head(recs).rec.payload) + ConsumedSectors(Tail(recs), n - k)

\* C2: while decompact runs and when it has ended, every populated slot of
\* the table has a location of at least 8192 and a size that is not zero
\* (both are multiples of 4096), the ranges of two populated slots are
\* disjoint, and the running location is 8192 plus the sizes of the bodies
\* written so far
C2_Layout ==
  (S # NoStream /\ pc \in {"decompact", "d_ok"}) =>
     /\ \A p \in DOMAIN chunkinfos :
          /\ ChunkInfo_location(chunkinfos[p]).b = 0
          /\ ChunkInfo_location(chunkinfos[p]).s >= RegionInfo_SIZE \div SECTOR_SIZE
          /\ ChunkInfo_size(chunkinfos[p]) > 0
          /\ ChunkInfo_size(chunkinfos[p]) % SECTOR_SIZE = 0
     /\ \A p, q \in DOMAIN chunkinfos : p # q =>
          LET lp == ChunkInfo_location(chunkinfos[p]).s
              lq == ChunkInfo_location(chunkinfos[q]).s
          IN  \/ lp + chunkinfos[p].locdata[4] <= lq
              \/ lq + chunkinfos[q].locdata[4] <= lp
     /\ location.b = 0
     /\ location.s = RegionInfo_SIZE \div SECTOR_SIZE + ConsumedSectors(S.recs, nread)

\* C3: after a successful decompact of a stream that is not empty, the
\* range [location, location + size) of every populated slot lies inside
\* the file
C3_BodiesPadded ==
  (S # NoStream /\ pc = "d_ok" /\ nread > 0) =>
     \A p \in DOMAIN rfile.hdr :
        OffLE(OffAdd(ChunkInfo_location(rfile.hdr[p]), ChunkInfo_size(rfile.hdr[p])),
              rfile.len)

\* the records read so far are records decompact can store: positions
\* < 1024 (but for the last, when except_last) and frames of at most 255 sectors
Storable(n, except_last) ==
  \A i \in 1..n :
     /\ SectorsOf(SRec(i).payload) <= MAX_SECTOR_COUNT
     /\ (i < n \/ ~except_last) => SRec(i).pos < MAX_CHUNK_COUNT

\* C4: once decompact has read a record whose pos an earlier record had, the
\* run has ended in the error MalformedBin and the output is removed
C4_DuplicatePos ==
  (S # NoStream /\ Unrolled /\ Storable(nread, FALSE)
     /\ \E i, j \in 1..nread : i < j /\ SRec(i).pos = SRec(j).pos)
  => (pc = "d_err" /\ err = "MalformedBin" /\ ~rfile.exists)

\* C5: once decompact has read a record with pos >= 1024, the run has ended
\* in the error MalformedBin and the output is removed; no slot >= 1024 is
\* ever stored
C5_PosOutOfRange ==
  /\ \A p \in DOMAIN chunkinfos : p < MAX_CHUNK_COUNT
  /\ (S # NoStream /\ Unrolled /\ nread > 0 /\ Storable(nread, TRUE)
        /\ SRec(nread).pos >= MAX_CHUNK_COUNT)
     => (pc = "d_err" /\ err = "MalformedBin" /\ ~rfile.exists)

\* C6: decompact ends in success only on an input that ends at a record
\* boundary; on an input that ends inside a header, or before the payload a
\* header declares, it ends in the error UnexpectedEof and the output is
\* removed
C6_EofOnlyAtBoundary ==
  (S # NoStream /\ Unrolled /\ Storable(Len(S.recs), FALSE)) =>
     /\ pc = "d_ok" => S.tail.k = "eof"
     /\ (S.tail.k \in {"hdr", "short"} /\ input.recs = <<>>
           /\ pc \notin {"idle", "decompact", "d_panic"})
        => (pc = "d_err" /\ err = "UnexpectedEof" /\ ~rfile.exists)

NonZeroSlots == {p \in DOMAIN rfile.hdr : rfile.hdr[p].locdata # ZeroLocdata}

SectorOfSlot(p) == ChunkInfo_location(rfile.hdr[p]).s

EmittedSlots == {binout.recs[j].pos : j \in 1..Len(binout.recs)}

\* C10: every record compact has emitted is for a slot with a non-zero
\* locdata, with that slot's index as pos and its timestamp; no slot has two
\* records; the records are in ascending order of location and no slot with
\* a smaller location is left out; and a compact that ends in success has
\* emitted a record for every non-zero slot
C10_OnePerSlotInLocationOrder ==
  (pc \in {"compact", "c_ok", "c_panic"} \/ (pc = "c_err" /\ binout.exists)) =>
     /\ \A j \in 1..Len(binout.recs) :
          /\ binout.recs[j].pos \in NonZeroSlots
          /\ binout.recs[j].timestamp = rfile.hdr[binout.recs[j].pos].timestamp
     /\ \A i, j \in 1..Len(binout.recs) : i < j =>
          /\ binout.recs[i].pos # binout.recs[j].pos
          /\ SectorOfSlot(binout.recs[i].pos) <= SectorOfSlot(binout.recs[j].pos)
     /\ \A j \in 1..Len(binout.recs) : \A p \in NonZeroSlots \ EmittedSlots :
          SectorOfSlot(binout.recs[j].pos) <= SectorOfSlot(p)
     /\ pc = "c_ok" => EmittedSlots = NonZeroSlots

C10_Witness ==
  /\ pc = "c_ok" /\ Len(binout.recs) = 2
  /\ binout.recs[1].pos > binout.recs[2].pos
  /\ \E p \in DOMAIN rfile.hdr : rfile.hdr[p].locdata = ZeroLocdata /\ rfile.hdr[p].timestamp # 0

(***************************************************************************)
(* ChunkInfo::new as a function: a call, then the ChunkInfo written into a *)
(* header and read back                                                    *)
(***************************************************************************)
CallSectors == {1, 2, 16, 255, 256, 65535, 65536, MAX_SECTOR_INDEX,
                MAX_SECTOR_INDEX + 1, MAX_SECTOR_INDEX + 2, MAX_SECTOR_INDEX + 17}

CallSizes == {SECTOR_SIZE, SECTOR_SIZE + 1, 2 * SECTOR_SIZE,
              MAX_SECTOR_COUNT * SECTOR_SIZE, (MAX_SECTOR_COUNT + 1) * SECTOR_SIZE,
              (MAX_SECTOR_COUNT + 2) * SECTOR_SIZE}

InitCall ==
  /\ debug \in BOOLEAN
  /\ pc = "call"
  /\ err = ""
  /\ S = NoStream
  /\ input = NoStream
  /\ rfile = NoFile
  /\ wpos = Off(0, 0)
  /\ chunkinfos = <<>>
  /\ location = Off(0, 0)
  /\ nread = 0
  /\ rr = NoReader
  /\ chunkbuf = <<>>
  /\ binout = NoOut
  /\ \E s \in CallSectors, b \in {0, 1}, size \in CallSizes,
        ts \in {0, 256}, slot \in {0, MAX_CHUNK_COUNT - 1} :
       ci = [NoCall EXCEPT !.phase = "args", !.loc = Off(s, b), !.size = size,
                           !.timestamp = ts, !.slot = slot]

\* ChunkInfo::new(location, size, timestamp)
CallNew ==
  /\ ci.phase = "args"
  /\ LET c == ChunkInfo_new(ci.loc, ci.size, ci.timestamp)
     IN  ci' = [ci EXCEPT !.phase = IF c.panic THEN "panic" ELSE "new",
                          !.panic = c.panic,
                          !.out = [locdata |-> c.locdata, timestamp |-> c.timestamp]]
  /\ UNCHANGED <<debug, pc, err, S, input, rfile, wpos, chunkinfos, location, nread,
                 rr, chunkbuf, binout>>

\* the ChunkInfo in slot ci.slot of a header table, written as decompact_ws
\* writes it and read as RegionInfo::read reads it
CallHeaderRoundTrip ==
  /\ ci.phase = "new"
  /\ ci' = [ci EXCEPT !.phase = "parsed",
                      !.parsed = RegionInfo_read(
                                   WriteHeader(EmptyFile, ci.slot :> ci.out)).chunks]
  /\ UNCHANGED <<debug, pc, err, S, input, rfile, wpos, chunkinfos, location, nread,
                 rr, chunkbuf, binout>>

NextCall == CallNew \/ CallHeaderRoundTrip

SpecCall == InitCall /\ [][NextCall]_vars

\* the arguments of the call are within ChunkInfo::new's contract
InContract ==
  /\ ci.loc.b = 0 /\ ci.loc.s >= 1 /\ ci.loc.s <= MAX_SECTOR_INDEX
  /\ ci.size % SECTOR_SIZE = 0
  /\ ci.size \div SECTOR_SIZE >= 1 /\ ci.size \div SECTOR_SIZE <= MAX_SECTOR_COUNT

\* C8: a ChunkInfo made within the contract gives back its location, size
\* and timestamp; its locdata holds the sector index in its first three
\* bytes, most significant first, and the sector count in its last byte; and
\* written into a header and parsed back it is the same ChunkInfo in the
\* same slot
C8_RoundTrip ==
  (InContract /\ ci.phase # "args") =>
     /\ ci.phase \in {"new", "parsed"}
     /\ ChunkInfo_location(ci.out) = ci.loc
     /\ ChunkInfo_size(ci.out) = ci.size
     /\ ci.out.timestamp = ci.timestamp
     /\ (ci.out.locdata[1] * 256 + ci.out.locdata[2]) * 256 + ci.out.locdata[3] = ci.loc.s
     /\ ci.out.locdata[4] = ci.size \div SECTOR_SIZE
     /\ ci.phase = "parsed" =>
          /\ Len(ci.parsed) = 1
          /\ ci.parsed[1].pos = ci.slot
          /\ ChunkInfo_location(ci.parsed[1].info) = ci.loc
          /\ ChunkInfo_size(ci.parsed[1].info) = ci.size
          /\ ci.parsed[1].info.timestamp = ci.timestamp

C8_Witness ==
  /\ ci.phase = "parsed" /\ InContract
  /\ ci.loc.s = MAX_SECTOR_INDEX /\ ci.size = MAX_SECTOR_COUNT * SECTOR_SIZE
  /\ ci.slot = MAX_CHUNK_COUNT - 1

\* C9: a call that breaks any of the four preconditions aborts; a call that
\* returns gives a ChunkInfo whose location() is the argument
C9_FourPreconditions ==
  ci.phase \in {"new", "parsed", "panic"} =>
     /\ ~InContract => ci.phase = "panic"
     /\ ci.phase # "panic" => ChunkInfo_location(ci.out) = ci.loc


(***************************************************************************)
(* RegionReader::read_next_chunk, as compact calls it                      *)
(***************************************************************************)
\* the chunk the next call of read_next_chunk is about
NextChunk == rr.info[rr.next_chunk + 1].info

\* compact is about to call read_next_chunk: the reader is not tainted, a
\* chunk remains and it does not start before pos (the assert of the call
\* holds: two slots on one body are another matter)
CallsReadNextChunk ==
  /\ pc = "compact" /\ ~rr.tainted /\ rr.next_chunk < Len(rr.info)
  /\ OffLE(rr.pos, ChunkInfo_location(NextChunk))

\* C11: every call of read_next_chunk on an untainted reader with a chunk
\* remaining either succeeds, having copied exactly size() bytes (pos is
\* then location + size and next_chunk has grown by one), or surfaces an
\* error with the reader tainted and next_chunk as it was; an input that
\* ends before location + size gives the error, never a success with fewer
\* bytes.
C11_ReadNextChunkOutcomes ==
  [][CallsReadNextChunk =>
       \/ /\ rr'.next_chunk = rr.next_chunk + 1
          /\ ~rr'.tainted
          /\ rr'.pos = OffAdd(ChunkInfo_location(NextChunk), ChunkInfo_size(NextChunk))
       \/ /\ rr'.tainted
          /\ rr'.next_chunk = rr.next_chunk
          /\ pc' = "c_err"]_vars


(***************************************************************************)
(* compact: the reused chunk buffer                                        *)
(***************************************************************************)
\* the chunk compact read last
LastChunk == rr.info[rr.next_chunk].info

\* compact has read a chunk into chunkbuf and gone on from it
ChunkWasRead ==
  pc \in {"compact", "c_ok", "c_err"} /\ ~rr.tainted /\ rr.next_chunk >= 1

\* C12: in compact, a chunk whose length field exceeds size() - 4 makes
\* compact fail with UnexpectedEof, whatever the chunks before it were: the
\* decoder is given bytes of the size() bytes read for this chunk only,
\* never what an earlier, larger chunk left in the reused buffer.
C12_LengthBeyondChunkFails ==
  (ChunkWasRead /\ U32At0(chunkbuf) > ChunkInfo_size(LastChunk) - 4)
    => (pc = "c_err" /\ err = "UnexpectedEof")

====
